---- MODULE Spec2Model ----
(***************************************************************************)
(* Smart-Contract-Analyzer backend: the two vector collections, the        *)
(* knowledge-base manager, the RAG query chain, the clause extractor and   *)
(* the HTTP endpoints in front of them.                                    *)
(*                                                                         *)
(* Conventions.                                                            *)
(*  - A Chroma collection is a bag of stored items (the generated uuid of  *)
(*    an item is its copy in the bag).                                     *)
(*  - Optional[T] is a set: {} is None, {v} is the value v.                *)
(*  - A Python call that may raise is an operator returning a record with  *)
(*    the exception raised (NoExc when it returned) and what it returned.  *)
(*  - An HTTP endpoint is one action; its response is left in `last`.      *)
(***************************************************************************)
EXTENDS Integers, Sequences, FiniteSets, Bags, TLC

VARIABLES
    kb,     \* collection "smart_contract_knowledge_base"
    cc,     \* collection "smart_contract_analysis" (contract chunks)
    q,      \* the /rag/query request in progress
    llm,    \* what the LLM API answers to a call: a text or an API error
    client, \* main.py's module-level Anthropic client
    last    \* the last completed request and its response

vars == <<kb, cc, q, llm, client, last>>

----------------------------------------------------------------------------
(* Bounds of the model and program constants *)

MaxKbItems == 2
MaxExtraItems == 1
MaxOtherCategory == 2
MaxRespLen == 5
MaxChunks == 3
ChunkSize == 6
ChunkOverlap == 1
MaxTextLen == 5
MaxChunkSize == 3

SEVERITY_MIN == 0
SEVERITY_MAX == 5
STATS_N_RESULTS == 1000
CONTRACT_N_RESULTS == 5
KNOWLEDGE_N_RESULTS == 2

----------------------------------------------------------------------------
(* Generic helpers *)

None == {}
Some(v) == {v}
Val(o) == CHOOSE v \in o : TRUE

Min2(a, b) == IF a <= b THEN a ELSE b

\* Python truthiness of an Optional[str]: None and "" are falsy
Truthy(o) == o # None /\ Val(o) # ""

NoExc == [cls |-> "none", msg |-> "", field |-> ""]
Exc(c, m) == [cls |-> c, msg |-> m, field |-> ""]
ExcField(c, m, f) == [cls |-> c, msg |-> m, field |-> f]

\* json.JSONDecodeError derives from ValueError
IsValueError(e) == e.cls \in {"ValueError", "JSONDecodeError"}

\* no query in progress; no request completed yet
Idle == [pc |-> "idle"]
NoRequest == [op |-> "none"]

\* main.py's `client`: before the module is loaded, the Anthropic client,
\* and None
NotLoaded == "not loaded"
Configured == "anthropic client"
NoClient == "None"

\* the two kinds of answer of the LLM API
LlmDown == [kind |-> "error", tokens |-> <<>>]
LlmText(t) == [kind |-> "text", tokens |-> t]

RECURSIVE BagSum(_, _)
BagSum(B, S) ==
    IF S = {} THEN 0
    ELSE LET e == CHOOSE x \in S : TRUE IN B[e] + BagSum(B, S \ {e})

BagSize(B) == BagSum(B, DOMAIN B)

\* the bag with the elements of f that have a positive count
Prune(f) ==
    LET D == {e \in DOMAIN f : f[e] > 0} IN [e \in D |-> f[e]]

\* all sub-bags of B with exactly n elements (n <= BagSize(B))
PickN(B, n) ==
    { Prune(f) : f \in { g \in [DOMAIN B -> 0..n] :
                           /\ \A e \in DOMAIN B : g[e] <= B[e]
                           /\ BagSum(g, DOMAIN B) = n } }

\* the sub-bag of B of the elements satisfying Test
FilterBag(B, Test(_)) ==
    LET D == {e \in DOMAIN B : Test(e)} IN [e \in D |-> B[e]]

----------------------------------------------------------------------------
(* vector_store.py: VectorStoreManager over one collection *)

add_documents_replacing(coll, items) == items

\* collection.add(documents, metadatas, ids): appends the items
add_documents(coll, items) == coll (+) items

WhereAll == [category |-> None, pattern_type |-> None,
             severity_gte |-> None, standard |-> None, contract_name |-> None]

\* Chroma `where`: every key given must match (keys are ANDed)
Matches(item, where) ==
    LET m == item.metadata IN
    /\ where.category # None => (m.kind = "kb" /\ m.category = Val(where.category))
    /\ where.pattern_type # None =>
           (m.kind = "kb" /\ m.pattern_type = Val(where.pattern_type))
    /\ where.severity_gte # None =>
           (m.kind = "kb" /\ m.severity >= Val(where.severity_gte))
    /\ where.standard # None =>
           (m.kind = "kb" /\ m.standard = where.standard)
    /\ where.contract_name # None =>
           (m.kind = "chunk" /\ m.contract_name = Val(where.contract_name))

\* collection.query(query_texts=[query], n_results, where): the n_results
\* nearest matching items.  Which items are nearest is decided by the
\* embedding: every choice of n_results matching items is possible.
search(coll, n_results, where) ==
    LET M == FilterBag(coll, LAMBDA e : Matches(e, where))
        sz == BagSize(M)
    IN  IF sz <= n_results THEN {M}
        ELSE IF n_results <= sz - n_results THEN PickN(M, n_results)
        ELSE { Prune([e \in DOMAIN M |-> M[e] - (IF e \in DOMAIN R THEN R[e] ELSE 0)])
                 : R \in PickN(M, sz - n_results) }

delete_collection_kept(coll) == coll

\* client.delete_collection(collection_name), then get_or_create_collection
\* under the same name: the adapter holds a fresh, empty collection
delete_collection(coll) == EmptyBag

get_collection_stats(coll, name) == [count |-> BagSize(coll), name |-> name]

----------------------------------------------------------------------------
(* knowledge_base.py: KnowledgeBaseManager *)

KB_NAME_default == "smart_contract_analysis"

\* the collection names the two adapters are constructed with
KB_NAME == "smart_contract_knowledge_base"
CC_NAME == "smart_contract_analysis"

SeverityRejected_offByOne(severity) == severity < 1 \/ severity > SEVERITY_MAX

\* `if severity < 0 or severity > 5`
SeverityRejected(severity) == severity < SEVERITY_MIN \/ severity > SEVERITY_MAX

\* a field of the request that defaults to None when it is not given
OptionalField(input, field) == IF field \in DOMAIN input THEN input[field] ELSE None

KbItem(input) ==
    [document |-> input.content,
     metadata |-> [kind |-> "kb",
                   category |-> input.category,
                   pattern_type |-> input.pattern_type,
                   severity |-> input.severity,
                   standard |-> input.standard,
                   code_example |-> OptionalField(input, "code_example"),
                   description |-> OptionalField(input, "description")]]

\* KnowledgeBaseManager.add_knowledge_item
add_knowledge_item(coll, input) ==
    IF SeverityRejected(input.severity)
    THEN [exc |-> Exc("ValueError", "Severity must be between 0 and 5"),
          coll |-> coll, stored |-> EmptyBag]
    ELSE [exc |-> NoExc,
          coll |-> add_documents(coll, SetToBag({KbItem(input)})),
          stored |-> SetToBag({KbItem(input)})]

\* the `where` dictionary built by search_knowledge
WhereClause(category, pattern_type, min_severity, standard) ==
    [WhereAll EXCEPT
       !.category = IF Truthy(category) THEN category ELSE None,
       !.pattern_type = IF Truthy(pattern_type) THEN pattern_type ELSE None,
       !.severity_gte = IF min_severity # None THEN min_severity ELSE None,
       !.standard = IF Truthy(standard) THEN standard ELSE None]

\* KnowledgeBaseManager.search_knowledge: the possible results
search_knowledge(coll, f, n_results) ==
    search(coll, n_results,
           WhereClause(f.category, f.pattern_type, f.min_severity, f.standard))

\* the category tabulation of get_knowledge_stats over the items fetched
Tabulate(hits) ==
    LET cats == {e.metadata.category : e \in DOMAIN hits} IN
    [c \in cats |->
        BagSize(FilterBag(hits, LAMBDA e : e.metadata.category = c))]

\* KnowledgeBaseManager.get_knowledge_stats: the possible results
get_knowledge_stats(coll) ==
    { [count |-> get_collection_stats(coll, KB_NAME).count,
       name |-> KB_NAME,
       categories |-> Tabulate(hits)] : hits \in search(coll, STATS_N_RESULTS, WhereAll) }

\* KnowledgeBaseManager.reset_knowledge_base
reset_knowledge_base(coll) == delete_collection(coll)

----------------------------------------------------------------------------
(* rag_service.py: RAGService pass-throughs to the knowledge base *)

rag_add_knowledge_item(coll, input) == add_knowledge_item(coll, input)
rag_get_knowledge_stats(coll) == get_knowledge_stats(coll)
rag_reset_knowledge_base(coll) == reset_knowledge_base(coll)

----------------------------------------------------------------------------
(* The LLM response as text.  A response is a sequence of tokens: the two  *)
(* bracket characters, the comma, a prose character, and JSON scalars and  *)
(* objects written out by the model (each an atom without brackets).       *)

RequiredFields == <<"clause_number", "original_clause", "explanation", "risk_flag">>
RequiredSet == {RequiredFields[i] : i \in DOMAIN RequiredFields}

ElemTokens == {"A", "B", "M", "S", "N"}

\* every atom that stands for a JSON value: the atoms above, and three
\* objects with all required fields and other risk_flag / risk_reason
Atoms == ElemTokens \cup {"Y", "R", "Q"}
Tokens == {"[", "]", ",", "x"} \cup ElemTokens

JsonValue(k, n, has, flag, text, items) ==
    [k |-> k, n |-> n, has |-> has, flag |-> flag, text |-> text, items |-> items]

\* what json.loads makes of each atom
Decode(tok) ==
    CASE tok = "A" -> JsonValue("obj", 1, RequiredSet \cup {"risk_reason"}, "Yes", "", <<>>)
      [] tok = "B" -> JsonValue("obj", 2, RequiredSet, "No", "", <<>>)
      [] tok = "M" -> JsonValue("obj", 3, RequiredSet \ {"explanation"}, "No", "", <<>>)
      [] tok = "S" -> JsonValue("str", 0, RequiredSet, "",
                                "clause_number original_clause explanation risk_flag", <<>>)
      [] tok = "N" -> JsonValue("num", 0, {}, "", "", <<>>)
      [] tok = "Y" -> JsonValue("obj", 4, RequiredSet, "Yes", "", <<>>)
      [] tok = "R" -> JsonValue("obj", 5, RequiredSet \cup {"risk_reason"}, "No", "", <<>>)
      [] tok = "Q" -> JsonValue("obj", 6, RequiredSet, "Maybe", "", <<>>)

JsonArray(items) == JsonValue("arr", 0, {}, "", "", items)

\* str.find(c): index of the first c, counted from 0, or -1
Find(s, c) ==
    IF \E i \in 1..Len(s) : s[i] = c
    THEN (CHOOSE i \in 1..Len(s) : s[i] = c /\ \A j \in 1..(i - 1) : s[j] # c) - 1
    ELSE -1

\* str.rfind(c): index of the last c, counted from 0, or -1
RFind(s, c) ==
    IF \E i \in 1..Len(s) : s[i] = c
    THEN (CHOOSE i \in 1..Len(s) : s[i] = c /\ \A j \in (i + 1)..Len(s) : s[j] # c) - 1
    ELSE -1

\* s[a:b] for 0 <= a and 0 <= b <= len(s)
PySlice(s, a, b) == SubSeq(s, a + 1, b)

ParseFail == [ok |-> FALSE, val |-> JsonArray(<<>>), next |-> 0]

RECURSIVE ParseValue(_, _)
RECURSIVE ParseElems(_, _, _)

\* one JSON value starting at position i
ParseValue(s, i) ==
    IF i > Len(s) THEN ParseFail
    ELSE IF s[i] \in Atoms THEN [ok |-> TRUE, val |-> Decode(s[i]), next |-> i + 1]
    ELSE IF s[i] = "["
         THEN IF i + 1 <= Len(s) /\ s[i + 1] = "]"
              THEN [ok |-> TRUE, val |-> JsonArray(<<>>), next |-> i + 2]
              ELSE ParseElems(s, i + 1, <<>>)
    ELSE ParseFail

\* the elements of an array after its "[" (or after a comma), up to its "]"
ParseElems(s, i, acc) ==
    LET v == ParseValue(s, i) IN
    IF ~v.ok \/ v.next > Len(s) THEN ParseFail
    ELSE IF s[v.next] = "," THEN ParseElems(s, v.next + 1, Append(acc, v.val))
    ELSE IF s[v.next] = "]"
         THEN [ok |-> TRUE, val |-> JsonArray(Append(acc, v.val)), next |-> v.next + 1]
    ELSE ParseFail

\* json.loads: one value spanning the whole string, or JSONDecodeError
json_loads(s) ==
    LET r == ParseValue(s, 1) IN
    IF r.ok /\ r.next = Len(s) + 1
    THEN [exc |-> NoExc, val |-> r.val]
    ELSE [exc |-> Exc("JSONDecodeError", "malformed JSON"), val |-> JsonArray(<<>>)]

\* Python's `field in item`: key of a dict, substring of a str, element of
\* a list; a number is not iterable (TypeError)
FieldIn(field, item) ==
    CASE item.k = "obj" -> field \in item.has
      [] item.k = "str" -> field \in item.has
      [] item.k = "arr" -> \E i \in 1..Len(item.items) :
                               item.items[i].k = "str" /\ item.items[i].text = field
      [] OTHER -> FALSE

\* the first required field, in the order checked, that is not in item
FirstMissing(item) ==
    RequiredFields[CHOOSE i \in 1..Len(RequiredFields) :
                      /\ ~FieldIn(RequiredFields[i], item)
                      /\ \A j \in 1..(i - 1) : FieldIn(RequiredFields[j], item)]

ItemPasses(item) ==
    item.k # "num" /\ \A i \in 1..Len(RequiredFields) : FieldIn(RequiredFields[i], item)

\* the validation loops `for item in parsed_result: for field in
\* required_fields: if field not in item: raise ValueError(...)`
ValidateItems(items) ==
    IF \A i \in 1..Len(items) : ItemPasses(items[i]) THEN NoExc
    ELSE LET bad == items[CHOOSE i \in 1..Len(items) :
                            /\ ~ItemPasses(items[i])
                            /\ \A j \in 1..(i - 1) : ItemPasses(items[j])]
         IN  IF bad.k = "num"
             THEN Exc("TypeError", "argument of type 'int' is not iterable")
             ELSE ExcField("ValueError", "Missing required field", FirstMissing(bad))

NoClauses == <<>>

BracketSpan_exclusiveEnd(text) ==
    LET start_idx == Find(text, "[")
        end_idx == RFind(text, "]")
    IN  [found |-> start_idx # -1 /\ end_idx # -1,
         json_str |-> IF start_idx # -1 /\ end_idx # -1
                      THEN PySlice(text, start_idx, end_idx) ELSE <<>>]

\* start_idx = find('['), end_idx = rfind(']') + 1, the test
\* `start_idx != -1 and end_idx != 0` and the slice [start_idx:end_idx]
BracketSpan(text) ==
    LET start_idx == Find(text, "[")
        end_idx == RFind(text, "]") + 1
    IN  [found |-> start_idx # -1 /\ end_idx # 0,
         json_str |-> IF start_idx # -1 /\ end_idx # 0
                      THEN PySlice(text, start_idx, end_idx) ELSE <<>>]

PROMPT_TEXT_LIMIT == 8000

\* contract_text[:8000]
Truncated(contract_text) ==
    PySlice(contract_text, 0, Min2(Len(contract_text), PROMPT_TEXT_LIMIT))

\* the f-string of analyze_contract_with_claude: the fixed instructions, the
\* truncated contract text, and the rest of the template's last line
AnalysisPrompt(instructions, contract_text) ==
    <<instructions>> \o Truncated(contract_text)
                    \o <<"  # Limit to prevent token overflow\n">>

\* client.messages.create / llm.invoke: one call, its text or APIError
LlmCall(answer) ==
    IF answer.kind = "text" THEN [exc |-> NoExc, text |-> answer.tokens]
    ELSE [exc |-> Exc("APIError", "API error"), text |-> <<>>]

----------------------------------------------------------------------------
(* document_processor.py: DocumentProcessor.  A text is a sequence of      *)
(* characters.  The processor is the RecursiveCharacterTextSplitter it     *)
(* constructs with chunk_size, chunk_overlap, the separators list,         *)
(* length_function=len and is_separator_regex=False, the splitter's other  *)
(* settings at their defaults (separators kept at the start of the piece   *)
(* that follows them, chunks stripped of surrounding whitespace).          *)

\* the default `separators` of DocumentProcessor.__init__
SEPARATORS == << <<"\n", "\n">>, <<"\n">>, <<".">>, <<"!">>, <<"?">>, <<",">>, <<" ">>, <<>> >>

\* the characters str.strip() removes
Whitespace == {" ", "\n"}

RECURSIVE LStrip(_)
LStrip(s) == IF s # <<>> /\ s[1] \in Whitespace THEN LStrip(Tail(s)) ELSE s

RECURSIVE RStrip(_)
RStrip(s) ==
    IF s # <<>> /\ s[Len(s)] \in Whitespace THEN RStrip(SubSeq(s, 1, Len(s) - 1)) ELSE s

Strip(s) == RStrip(LStrip(s))

\* "".join(parts)
RECURSIVE Concat(_)
Concat(parts) == IF parts = <<>> THEN <<>> ELSE Head(parts) \o Concat(Tail(parts))

\* sep.join(parts)
RECURSIVE Join(_, _)
Join(sep, parts) ==
    IF parts = <<>> THEN <<>>
    ELSE IF Len(parts) = 1 THEN parts[1]
    ELSE parts[1] \o sep \o Join(sep, Tail(parts))

OccursAt(text, i, sep) ==
    /\ i + Len(sep) - 1 <= Len(text)
    /\ SubSeq(text, i, i + Len(sep) - 1) = sep

Occurs(text, sep) == \E i \in 1..Len(text) : OccursAt(text, i, sep)

\* DocumentProcessor.__init__: the arguments go unchecked to the splitter's
\* constructor, which raises ValueError when chunk_overlap > chunk_size
DocumentProcessor(chunk_size, chunk_overlap) ==
    IF chunk_overlap > chunk_size
    THEN [exc |-> Exc("ValueError", "Got a larger chunk overlap than chunk size"),
          chunk_size |-> 0, chunk_overlap |-> 0]
    ELSE [exc |-> NoExc, chunk_size |-> chunk_size, chunk_overlap |-> chunk_overlap]

\* the pieces of text between the occurrences of sep, each occurrence kept
\* at the start of the piece after it
RECURSIVE SplitKeep(_, _, _, _, _)
SplitKeep(text, sep, i, cur, acc) ==
    IF i > Len(text) THEN Append(acc, cur)
    ELSE IF OccursAt(text, i, sep)
    THEN SplitKeep(text, sep, i + Len(sep), sep, Append(acc, cur))
    ELSE SplitKeep(text, sep, i + 1, Append(cur, text[i]), acc)

\* the splits for one separator ("" splits into characters), empty ones dropped
split_text_with_regex(text, sep) ==
    LET splits == IF sep = <<>> THEN [i \in 1..Len(text) |-> <<text[i]>>]
                  ELSE SplitKeep(text, sep, 1, <<>>, <<>>)
    IN  SelectSeq(splits, LAMBDA x : x # <<>>)

RECURSIVE SumLen(_)
SumLen(parts) == IF parts = <<>> THEN 0 ELSE Len(Head(parts)) + SumLen(Tail(parts))

\* the chunk made of the splits collected: joined, stripped, dropped if empty
join_docs(current_doc) ==
    LET text == Strip(Concat(current_doc)) IN
    IF text = <<>> THEN <<>> ELSE <<text>>

\* after a chunk was emitted: drop splits from the front while more than
\* chunk_overlap is kept or the next split still does not fit
RECURSIVE PopWhile(_, _, _)
PopWhile(dp, current_doc, len_d) ==
    LET total == SumLen(current_doc) IN
    IF total > dp.chunk_overlap \/ (total + len_d > dp.chunk_size /\ total > 0)
    THEN PopWhile(dp, Tail(current_doc), len_d)
    ELSE current_doc

RECURSIVE MergeLoop(_, _, _, _, _)
MergeLoop(dp, splits, i, docs, current_doc) ==
    IF i > Len(splits) THEN docs \o join_docs(current_doc)
    ELSE LET d == splits[i]
             flush == /\ SumLen(current_doc) + Len(d) > dp.chunk_size
                      /\ current_doc # <<>>
         IN  MergeLoop(dp, splits, i + 1,
                       IF flush THEN docs \o join_docs(current_doc) ELSE docs,
                       Append(IF flush THEN PopWhile(dp, current_doc, Len(d))
                              ELSE current_doc, d))

\* small splits are merged into chunks of at most chunk_size characters
merge_splits(dp, splits) == MergeLoop(dp, splits, 1, <<>>, <<>>)

RECURSIVE split_text_with(_, _, _)
RECURSIVE SplitLoop(_, _, _, _, _, _)

\* split on the first separator of the list that occurs in the text; a
\* split of chunk_size or more is split again with the separators after it
split_text_with(dp, text, separators) ==
    LET hit == {i \in 1..Len(separators) :
                   separators[i] = <<>> \/ Occurs(text, separators[i])}
        k == IF hit = {} THEN Len(separators)
             ELSE CHOOSE i \in hit : \A j \in hit : i <= j
        separator == separators[k]
        new_separators == IF hit = {} \/ separator = <<>> THEN <<>>
                          ELSE SubSeq(separators, k + 1, Len(separators))
    IN  SplitLoop(dp, split_text_with_regex(text, separator), 1, <<>>, <<>>,
                  new_separators)

SplitLoop(dp, splits, i, good_splits, final_chunks, new_separators) ==
    LET merged == IF good_splits # <<>>
                  THEN final_chunks \o merge_splits(dp, good_splits)
                  ELSE final_chunks
    IN  IF i > Len(splits) THEN merged
        ELSE IF Len(splits[i]) < dp.chunk_size
        THEN SplitLoop(dp, splits, i + 1, Append(good_splits, splits[i]),
                       final_chunks, new_separators)
        ELSE SplitLoop(dp, splits, i + 1, <<>>,
                       merged \o (IF new_separators = <<>> THEN <<splits[i]>>
                                  ELSE split_text_with(dp, splits[i], new_separators)),
                       new_separators)

\* text_splitter.split_text(contract_text)
split_text(dp, contract_text) == split_text_with(dp, contract_text, SEPARATORS)

\* The signature pattern of _extract_function_signatures, over texts whose
\* keywords are written as one character each: "F" is `function`, "P" a
\* visibility (public|private|internal|external), "V" a mutability
\* (view|pure|payable), "R" is `returns`; all of them and "a", "n" are \w.
\*   F \s+ \w+ \s* ( [^)]* ) \s* P? \s* V? \s* (R \s* ( [^)]* ))?
WordChars == {"a", "n", "F", "P", "V", "R"}

\* the first index from i on that is not in class (Len + 1 if none)
RECURSIVE Skip(_, _, _)
Skip(text, i, class) ==
    IF i <= Len(text) /\ text[i] \in class THEN Skip(text, i + 1, class) ELSE i

\* `\([^)]*\)` at i: the index after the first ")" that follows, 0 if no match
ParenEnd(text, i) ==
    IF i <= Len(text) /\ text[i] = "(" /\ (\E j \in (i + 1)..Len(text) : text[j] = ")")
    THEN (CHOOSE j \in (i + 1)..Len(text) :
              text[j] = ")" /\ \A k \in (i + 1)..(j - 1) : text[k] # ")") + 1
    ELSE 0

\* an optional keyword at i: the index after it if it is there
Optional(text, i, keyword) ==
    IF i <= Len(text) /\ text[i] = keyword THEN i + 1 ELSE i

\* a match of the pattern starting at i: the index after it, 0 if none
SignatureEnd(text, i) ==
    LET name == Skip(text, i + 1, Whitespace)
        after_name == Skip(text, name, WordChars)
        params == ParenEnd(text, Skip(text, after_name, Whitespace))
        visibility == Optional(text, Skip(text, params, Whitespace), "P")
        mutability == Optional(text, Skip(text, visibility, Whitespace), "V")
        returns == Skip(text, mutability, Whitespace)
        returned == IF returns <= Len(text) /\ text[returns] = "R"
                    THEN ParenEnd(text, Skip(text, returns + 1, Whitespace))
                    ELSE 0
    IN  IF i > Len(text) \/ text[i] # "F" \/ name = i + 1 \/ after_name = name
           \/ params = 0
        THEN 0
        ELSE IF returned # 0 THEN returned ELSE returns

\* re.finditer: the matches from left to right, none overlapping another
RECURSIVE FindSignatures(_, _, _)
FindSignatures(text, i, acc) ==
    IF i > Len(text) THEN acc
    ELSE LET e == SignatureEnd(text, i) IN
         IF e # 0 THEN FindSignatures(text, e, Append(acc, SubSeq(text, i, e - 1)))
         ELSE FindSignatures(text, i + 1, acc)

\* DocumentProcessor._extract_function_signatures
extract_function_signatures(text) == FindSignatures(text, 1, <<>>)

\* `if function_sigs: metadata["functions"] = ", ".join(function_sigs)`
functions_metadata(function_sigs) ==
    IF function_sigs # <<>> THEN Some(Join(<<",", " ">>, function_sigs)) ELSE None

\* the loop `for i, chunk in enumerate(chunks)` from its i-th round on:
\* each round appends one document, one metadata and one id (a uuid4,
\* here the number of the round)
RECURSIVE ProcessLoop(_, _, _, _)
ProcessLoop(chunks, contract_name, i, acc) ==
    IF i >= Len(chunks) THEN acc
    ELSE LET chunk == chunks[i + 1]
             metadata == [kind |-> "chunk",
                          contract_name |-> contract_name,
                          chunk_index |-> i,
                          total_chunks |-> Len(chunks),
                          functions |->
                              functions_metadata(extract_function_signatures(chunk))]
         IN  ProcessLoop(chunks, contract_name, i + 1,
                         [documents |-> Append(acc.documents, chunk),
                          metadatas |-> Append(acc.metadatas, metadata),
                          ids |-> Append(acc.ids, i + 1)])

\* DocumentProcessor.process_smart_contract
process_smart_contract(dp, contract_text, contract_name) ==
    ProcessLoop(split_text(dp, contract_text), contract_name, 0,
                [documents |-> <<>>, metadatas |-> <<>>, ids |-> <<>>])

AddArguments_fromSecond(processed) ==
    [i \in 1..(Len(processed.ids) - 1) |->
        [document |-> processed.documents[i + 1], metadata |-> processed.metadatas[i + 1]]]

\* the items of collection.add(documents, metadatas, ids): the i-th document
\* with the i-th metadata, under the i-th id
AddArguments(processed) ==
    [i \in 1..Len(processed.ids) |->
        [document |-> processed.documents[i], metadata |-> processed.metadatas[i]]]

RECURSIVE SeqToBag(_)
SeqToBag(items) ==
    IF items = <<>> THEN EmptyBag
    ELSE SetToBag({Head(items)}) (+) SeqToBag(Tail(items))

\* all orders in which the items of bag B can be listed
Orderings(B) ==
    LET n == BagSize(B) IN
    { s \in [1..n -> DOMAIN B] :
        \A e \in DOMAIN B : Cardinality({i \in 1..n : s[i] = e}) = B[e] }

----------------------------------------------------------------------------
(* rag_service.py: RAGService *)

\* RAGService.__init__: the processor of the service instance
document_processor == DocumentProcessor(ChunkSize, ChunkOverlap)

\* RAGService.add_contract: chunk, store, report the collection's count
add_contract(coll, contract_text, contract_name) ==
    LET processed == process_smart_contract(document_processor, contract_text, contract_name)
        stored == add_documents(coll, SeqToBag(AddArguments(processed)))
    IN  [exc |-> NoExc, coll |-> stored,
         stats |-> get_collection_stats(stored, CC_NAME)]

rag_analyze_contract_with_claude_unvalidated(contract_text, answer) ==
    LET m == LlmCall(answer)
        parsed == json_loads(BracketSpan(m.text).json_str)
        e == IF m.exc # NoExc THEN m.exc
             ELSE IF ~BracketSpan(m.text).found
             THEN Exc("ValueError", "No valid JSON array found")
             ELSE parsed.exc
    IN  [exc |-> e, llm_calls |-> 1,
         clauses |-> IF e = NoExc THEN parsed.val.items ELSE NoClauses,
         prompt |-> AnalysisPrompt("rag instructions", contract_text)]

\* RAGService.analyze_contract_with_claude: the response handling of the
\* try block; every except clause logs and re-raises what it caught
rag_analyze_contract_with_claude(contract_text, answer) ==
    LET m == LlmCall(answer) IN
    IF m.exc # NoExc THEN [exc |-> m.exc, clauses |-> NoClauses, llm_calls |-> 1,
          prompt |-> AnalysisPrompt("rag instructions", contract_text)]
    ELSE
    LET span == BracketSpan(m.text) IN
    IF span.found
    THEN LET parsed == json_loads(span.json_str) IN
         IF parsed.exc # NoExc
         THEN [exc |-> parsed.exc, clauses |-> NoClauses, llm_calls |-> 1,
          prompt |-> AnalysisPrompt("rag instructions", contract_text)]
         ELSE IF parsed.val.k # "arr"
         THEN [exc |-> Exc("ValueError", "Analysis response is not a JSON array"),
               clauses |-> NoClauses, llm_calls |-> 1,
          prompt |-> AnalysisPrompt("rag instructions", contract_text)]
         ELSE LET v == ValidateItems(parsed.val.items) IN
              IF v # NoExc THEN [exc |-> v, clauses |-> NoClauses, llm_calls |-> 1,
          prompt |-> AnalysisPrompt("rag instructions", contract_text)]
              ELSE [exc |-> NoExc, clauses |-> parsed.val.items, llm_calls |-> 1,
          prompt |-> AnalysisPrompt("rag instructions", contract_text)]
    ELSE [exc |-> Exc("ValueError", "No valid JSON array found"),
          clauses |-> NoClauses, llm_calls |-> 1,
          prompt |-> AnalysisPrompt("rag instructions", contract_text)]

\* RAGService.reset_collection and get_collection_stats
reset_collection(coll) == delete_collection(coll)
rag_get_collection_stats(coll) == get_collection_stats(coll, CC_NAME)

\* collection.get(include=..., limit=limit): the possible results.  Up to
\* `limit` items; with limit 0, Chroma versions whose metadata segment takes
\* `limit or 2**63 - 1` return every item, other versions none
collection_get(coll, limit) ==
    IF limit = 0 THEN {EmptyBag, coll}
    ELSE IF limit >= BagSize(coll) THEN {coll}
    ELSE PickN(coll, limit)

\* VectorStoreManager.get_all_documents: count, then get(limit=count), with
\* no other caller in between
get_all_documents(coll) == coll

\* RAGService.get_contract_details: one summary per contract name met in
\* the stored chunks (a chunk with an empty name is skipped), counting the
\* chunks of that name
get_contract_details(coll) ==
    LET all == get_all_documents(coll)
        names == {e.metadata.contract_name : e \in DOMAIN all} \ {""}
    IN  [n \in names |->
            [name |-> n,
             document_count |->
                 BagSize(FilterBag(all, LAMBDA e : e.metadata.contract_name = n))]]

\* vector_store.get_documents_by_metadata({"contract_name": name})
get_documents_by_metadata(coll, contract_name) ==
    FilterBag(coll, LAMBDA e : Matches(e, [WhereAll EXCEPT !.contract_name = Some(contract_name)]))

SortedByChunkIndex_asReturned(found) == Orderings(found)

\* sorted(zip(documents, metadatas), key=chunk_index): the possible orders
SortedByChunkIndex(found) ==
    { s \in Orderings(found) :
        \A i \in 1..(Len(s) - 1) : s[i].metadata.chunk_index <= s[i + 1].metadata.chunk_index }

\* RAGService.analyze_stored_contract: the possible outcomes
analyze_stored_contract(coll, contract_name, answer) ==
    LET found == get_documents_by_metadata(coll, contract_name) IN
    IF found = EmptyBag
    THEN { [exc |-> Exc("ValueError", "No chunks found for contract"),
            clauses |-> NoClauses, llm_calls |-> 0, full_contract_text |-> <<>>] }
    ELSE { LET text == Join(<<"\n">>, [i \in 1..Len(s) |-> s[i].document])
               r == rag_analyze_contract_with_claude(text, answer)
           IN  [exc |-> r.exc, clauses |-> r.clauses, llm_calls |-> r.llm_calls,
                full_contract_text |-> text]
           : s \in SortedByChunkIndex(found) }

----------------------------------------------------------------------------
(* main.py: the upload path *)

MIN_TEXT_LENGTH == 50

\* an HTTP response: status, the fixed part of the detail, the exception
\* message shown in the detail, and the exception that caused it
Http(status, detail, shown, cause) ==
    [status |-> status, detail |-> detail, shown |-> shown, cause |-> cause]

HttpOk == Http(200, "", NoExc, NoExc)

\* extract_text_from_pdf: every exception of the try block, the ValueError
\* for an empty text included, becomes HTTPException(400).  The temporary
\* file is created with delete=False; os.unlink(tmp_file.name) stands after
\* the block that opens and reads the PDF and before the test for an empty
\* text, so an exception of pdfplumber leaves the function without it
extract_text_from_pdf(req) ==
    LET e == IF ~req.readable THEN Exc("Exception", "cannot read PDF")
             ELSE IF req.text_len = 0
             THEN Exc("ValueError", "No text could be extracted from the PDF")
             ELSE NoExc
        tmp_file == IF ~req.readable THEN "exists" ELSE "deleted"
    IN  IF e # NoExc
        THEN [http |-> Http(400, "Error extracting text from PDF", e, e), text_len |-> 0,
              tmp_file |-> tmp_file]
        ELSE [http |-> HttpOk, text_len |-> req.text_len, tmp_file |-> tmp_file]

\* the module-level initialisation of the Anthropic client: the try block
\* raises ValueError when ANTHROPIC_API_KEY is not set; the except clause
\* logs the error and sets client = None.  `raised` is what leaves the block.
init_client(api_key) ==
    LET e == IF api_key = None THEN Exc("ValueError", "ANTHROPIC_API_KEY is required")
             ELSE NoExc
    IN  [client |-> IF e = NoExc THEN Configured ELSE NoClient,
         caught |-> e, raised |-> NoExc]

\* GET /health
health_check ==
    [status |-> "healthy",
     anthropic_api |-> IF client # NoClient THEN "connected" ELSE "not configured"]

\* main.analyze_contract_with_claude: without a client an HTTPException(500)
\* before the try block; then the response handling of the try block, where
\* each except clause raises HTTPException(500) with its own detail
main_analyze_contract_with_claude(contract_text, answer) ==
    IF client = NoClient
    THEN [http |-> Http(500, "Anthropic API client not configured", NoExc, NoExc),
          clauses |-> NoClauses, llm_calls |-> 0, prompt |-> <<>>]
    ELSE
    LET m == LlmCall(answer)
        span == BracketSpan(m.text)
        parsed == json_loads(span.json_str)
        e == IF m.exc # NoExc THEN m.exc
             ELSE IF ~span.found THEN Exc("ValueError", "No valid JSON array found")
             ELSE IF parsed.exc # NoExc THEN parsed.exc
             ELSE IF parsed.val.k # "arr" THEN Exc("ValueError", "Response is not a JSON array")
             ELSE ValidateItems(parsed.val.items)
    IN  IF e = NoExc
        THEN [http |-> HttpOk, clauses |-> parsed.val.items, llm_calls |-> 1,
              prompt |-> AnalysisPrompt("upload instructions", contract_text)]
        ELSE IF e.cls = "JSONDecodeError"
        THEN [http |-> Http(500, "Error parsing AI response", NoExc, e),
              clauses |-> NoClauses, llm_calls |-> 1,
              prompt |-> AnalysisPrompt("upload instructions", contract_text)]
        ELSE IF e.cls = "APIError"
        THEN [http |-> Http(500, "Claude API Error", e, e),
              clauses |-> NoClauses, llm_calls |-> 1,
              prompt |-> AnalysisPrompt("upload instructions", contract_text)]
        ELSE [http |-> Http(500, "Error analyzing contract", e, e),
              clauses |-> NoClauses, llm_calls |-> 1,
              prompt |-> AnalysisPrompt("upload instructions", contract_text)]

\* the text extracted from the PDF, of text_len characters
ExtractedText(text_len) == [i \in 1..text_len |-> "a"]

analyze_contract_unchecked(req, answer) ==
    LET r == main_analyze_contract_with_claude(ExtractedText(req.text_len), answer) IN
    [http |-> r.http, clauses |-> r.clauses, llm_calls |-> r.llm_calls,
     tmp_file |-> "never created"]

\* POST /analyze: the checks, in order, then the analysis
analyze_contract(req, answer) ==
    IF ~req.pdf_name
    THEN [http |-> Http(400, "Only PDF files are supported", NoExc, NoExc),
          clauses |-> NoClauses, llm_calls |-> 0, tmp_file |-> "never created"]
    ELSE IF req.too_large
    THEN [http |-> Http(400, "Error reading uploaded file", NoExc,
                        Exc("HTTPException", "File too large")),
          clauses |-> NoClauses, llm_calls |-> 0, tmp_file |-> "never created"]
    ELSE LET t == extract_text_from_pdf(req) IN
         IF t.http.status # 200
         THEN [http |-> t.http, clauses |-> NoClauses, llm_calls |-> 0,
               tmp_file |-> t.tmp_file]
         ELSE IF t.text_len < MIN_TEXT_LENGTH
         THEN [http |-> Http(400, "Could not extract meaningful text from PDF", NoExc, NoExc),
               clauses |-> NoClauses, llm_calls |-> 0, tmp_file |-> t.tmp_file]
         ELSE LET r == main_analyze_contract_with_claude(ExtractedText(t.text_len), answer)
              IN  [http |-> r.http, clauses |-> r.clauses, llm_calls |-> r.llm_calls,
                   tmp_file |-> t.tmp_file]

----------------------------------------------------------------------------
(* routers/rag.py: POST /rag/analyze-stored *)

\* `except ValueError` answers 404, any other exception 500
analyze_stored_contract_endpoint(coll, contract_name, answer) ==
    { [http |-> IF r.exc = NoExc THEN HttpOk
                ELSE IF IsValueError(r.exc)
                THEN Http(404, "Contract not found", r.exc, r.exc)
                ELSE Http(500, "Error analyzing stored contract", r.exc, r.exc),
       clauses |-> r.clauses, llm_calls |-> r.llm_calls,
       full_contract_text |-> r.full_contract_text]
      : r \in analyze_stored_contract(coll, contract_name, answer) }

----------------------------------------------------------------------------
(* rag_service.py and routers/rag.py: the query chain *)

\* query_contract: `rag_service.query(query.question)`
query_contract_args(req) == req.question

\* RAGService.query: `self.chain.invoke({"question": question})`
ChainInput(question) == [question |-> question]

\* x.get(key): None when the dictionary has no such key
DictGet(x, key) == IF key \in DOMAIN x THEN Some(x[key]) ELSE None

\* `"question": RunnablePassthrough()`: the value is the input of the chain
RunnablePassthrough(x) == x

\* str(x) of the dictionary {"question": ...}, as the template formats a
\* value that is not a string
StrOfDict(x) == <<"{'question': '", x.question, "'}">>

\* the first step of the chain: the variables handed to the prompt
PromptVariables(x, context) ==
    [context |-> context, question |-> StrOfDict(RunnablePassthrough(x))]

\* ChatPromptTemplate: the system message holds {context} and {question},
\* the human message is {question}
FormatPrompt(v) ==
    [system |-> [context |-> v.context, question |-> v.question],
     human |-> v.question]

\* `{"contract_name": contract_name} if contract_name else {}`
contract_filter(contract_name) ==
    IF Truthy(contract_name)
    THEN [WhereAll EXCEPT !.contract_name = contract_name]
    ELSE WhereAll

\* str(n) of a severity
IntStr(n) == <<"0", "1", "2", "3", "4", "5">>[n + 1]

\* ', '.join(s) of a string s: its characters, separated
JoinChars(sep, s) == Join(sep, [i \in 1..Len(s) |-> <<s[i]>>])

\* the context entry of a contract hit: what it is made from and its text
ContractPart(hit) ==
    [source |-> "contract", name |-> hit.metadata.contract_name,
     severity |-> None, doc |-> hit.document, hit |-> hit,
     text |-> <<"From Contract ", hit.metadata.contract_name>>
              \o (IF hit.metadata.functions # None
                  THEN <<" (Functions: ">>
                       \o JoinChars(<<",", " ">>, Val(hit.metadata.functions))
                       \o <<")">>
                  ELSE <<>>)
              \o <<":\n">> \o hit.document \o <<"\n">>]

\* the context entry of a knowledge-base hit; severity, code example and
\* description are shown `if metadata.get(...)`, that is when truthy
KnowledgePart(hit) ==
    [source |-> "kb", name |-> hit.metadata.category,
     severity |-> IF hit.metadata.severity # 0 THEN Some(hit.metadata.severity) ELSE None,
     doc |-> <<hit.document>>, hit |-> hit,
     text |-> <<"Knowledge Base (", hit.metadata.category, ")">>
              \o (IF hit.metadata.severity # 0
                  THEN <<" [Severity: ", IntStr(hit.metadata.severity), "/5]">>
                  ELSE <<>>)
              \o (IF Truthy(hit.metadata.code_example)
                  THEN <<"\nExample Implementation:\n", Val(hit.metadata.code_example)>>
                  ELSE <<>>)
              \o (IF Truthy(hit.metadata.description)
                  THEN <<"\nDescription: ", Val(hit.metadata.description)>>
                  ELSE <<>>)
              \o <<":\n", hit.document, "\n">>]

BuildContext_knowledgeFirst(contract_results, knowledge_results) ==
    [i \in 1..Len(knowledge_results) |-> KnowledgePart(knowledge_results[i])]
    \o [i \in 1..Len(contract_results) |-> ContractPart(contract_results[i])]

\* context_parts of _retrieve_context: contract entries, then knowledge
BuildContext(contract_results, knowledge_results) ==
    [i \in 1..Len(contract_results) |-> ContractPart(contract_results[i])]
    \o [i \in 1..Len(knowledge_results) |-> KnowledgePart(knowledge_results[i])]

\* "\n\n".join(context_parts)
JoinContext(context_parts) ==
    Join(<<"\n\n">>, [i \in 1..Len(context_parts) |-> context_parts[i].text])

NoFilters == [category |-> None, pattern_type |-> None,
              min_severity |-> None, standard |-> None]

QueryFailed(req, log, e) ==
    [op |-> "query", req |-> req, http |-> Http(500, "Error querying contract", e, e),
     answer |-> <<>>, context |-> <<>>, log |-> log]

OnSearchFailure_swallowed(qv, e, event) ==
    [done |-> FALSE,
     q |-> [qv EXCEPT !.pc = "llm", !.context = <<>>, !.log = Append(@, event)],
     last |-> NoRequest]

\* `except Exception as e: ... raise e` of _retrieve_context, and of query
\* and query_contract above it: the request ends with a 500
OnSearchFailure(qv, e, event) ==
    [done |-> TRUE,
     q |-> Idle,
     last |-> QueryFailed(qv.req, Append(qv.log, event), e)]

\* the chain is invoked with the arguments of the request
QueryStarted(req) ==
    [pc |-> "contract_search", req |-> req,
     chain_input |-> ChainInput(query_contract_args(req)),
     contract_results |-> <<>>, knowledge_results |-> <<>>,
     context |-> <<>>, log |-> <<>>]

\* POST /rag/query arrives
QueryReceive(req) ==
    /\ q.pc = "idle"
    /\ q' = QueryStarted(req)
    /\ UNCHANGED <<kb, cc, llm, client, last>>

\* vector_store.search(query=question, n_results=5, where=contract_filter)
QueryContractSearch ==
    /\ q.pc = "contract_search"
    /\ \E hits \in search(cc, CONTRACT_N_RESULTS,
                          contract_filter(DictGet(q.chain_input, "contract_name"))) :
       \E ordered \in Orderings(hits) :
          q' = [q EXCEPT !.pc = "kb_search", !.contract_results = ordered,
                         !.log = Append(@, "contract_search")]
    /\ UNCHANGED <<kb, cc, llm, client, last>>

\* the contract search raises
QueryContractSearchFails ==
    /\ q.pc = "contract_search"
    /\ LET o == OnSearchFailure(q, Exc("Exception", "vector store error"),
                                "contract_search_failed")
       IN  /\ q' = o.q
           /\ last' = IF o.done THEN o.last ELSE last
    /\ UNCHANGED <<kb, cc, llm, client>>

\* knowledge_base.search_knowledge(question, n_results=2), then the context
QueryKnowledgeSearch ==
    /\ q.pc = "kb_search"
    /\ \E hits \in search_knowledge(kb, NoFilters, KNOWLEDGE_N_RESULTS) :
       \E ordered \in Orderings(hits) :
          q' = [q EXCEPT !.pc = "llm",
                         !.knowledge_results = ordered,
                         !.context = BuildContext(q.contract_results, ordered),
                         !.log = Append(@, "kb_search")]
    /\ UNCHANGED <<kb, cc, llm, client, last>>

\* the knowledge-base search raises
QueryKnowledgeSearchFails ==
    /\ q.pc = "kb_search"
    /\ LET o == OnSearchFailure(q, Exc("Exception", "vector store error"),
                                "kb_search_failed")
       IN  /\ q' = o.q
           /\ last' = IF o.done THEN o.last ELSE last
    /\ UNCHANGED <<kb, cc, llm, client>>

\* prompt | llm | StrOutputParser: the prompt is formatted and sent in one
\* call; the text of the response is the answer
QueryLlm ==
    /\ q.pc = "llm"
    /\ LET prompt == FormatPrompt(PromptVariables(q.chain_input, JoinContext(q.context)))
           m == LlmCall(llm)
       IN  last' = IF m.exc = NoExc
                   THEN [op |-> "query", req |-> q.req, http |-> HttpOk,
                         answer |-> m.text, context |-> q.context,
                         contract_results |-> q.contract_results,
                         knowledge_results |-> q.knowledge_results,
                         prompt |-> prompt,
                         log |-> Append(q.log, "llm")]
                   ELSE QueryFailed(q.req, Append(q.log, "llm_failed"), m.exc)
    /\ q' = Idle
    /\ UNCHANGED <<kb, cc, llm, client>>

\* the collections of the Chroma store, by name: the two adapters of
\* RAGService open the same persist directory under their own names
Collections == (CC_NAME :> cc) @@ (KB_NAME :> kb)

\* the store after the adapter of collection `name` wrote coll
Persist(name, coll) == [Collections EXCEPT ![name] = coll]

\* POST /rag/add-contract
AddContractEndpoint(contract_text, contract_name) ==
    LET r == add_contract(Collections[CC_NAME], contract_text, contract_name)
        db == Persist(CC_NAME, r.coll)
    IN  /\ cc' = db[CC_NAME]
        /\ kb' = db[KB_NAME]
        /\ last' = [op |-> "add_contract", contract_name |-> contract_name,
                    http |-> HttpOk, stats |-> r.stats]
        /\ UNCHANGED <<q, llm, client>>

\* POST /rag/reset
ResetCollectionEndpoint ==
    LET db == Persist(CC_NAME, reset_collection(Collections[CC_NAME])) IN
    /\ cc' = db[CC_NAME]
    /\ kb' = db[KB_NAME]
    /\ last' = [op |-> "reset", http |-> HttpOk]
    /\ UNCHANGED <<q, llm, client>>

\* GET /rag/stats
StatsEndpoint ==
    LET collection_stats == rag_get_collection_stats(Collections[CC_NAME])
        contracts == get_contract_details(Collections[CC_NAME])
    IN  /\ last' = [op |-> "stats", http |-> HttpOk,
                    stats |-> [total_contracts |-> collection_stats.count,
                               collection_name |-> collection_stats.name,
                               contracts |-> contracts]]
        /\ UNCHANGED <<kb, cc, q, llm, client>>

----------------------------------------------------------------------------
(* State after construction: both collections empty, nothing in progress *)


Init ==
    /\ kb = EmptyBag
    /\ cc = EmptyBag
    /\ q = Idle
    /\ llm = LlmDown
    /\ client = Configured
    /\ last = NoRequest

----------------------------------------------------------------------------
(* routers/rag.py: the knowledge-base endpoints *)

\* POST /rag/knowledge/add: every exception becomes a 500
KnowledgeAddEndpoint(input) ==
    LET r == rag_add_knowledge_item(Collections[KB_NAME], input)
        db == Persist(KB_NAME, r.coll)
    IN  /\ kb' = db[KB_NAME]
        /\ cc' = db[CC_NAME]
        /\ last' = [op |-> "knowledge_add", input |-> input, stored |-> r.stored,
                    http |-> IF r.exc = NoExc THEN HttpOk
                             ELSE Http(500, "Error adding knowledge item", r.exc, r.exc)]
        /\ UNCHANGED <<q, llm, client>>

\* GET /rag/knowledge/stats
KnowledgeStatsEndpoint ==
    /\ \E s \in rag_get_knowledge_stats(Collections[KB_NAME]) :
          last' = [op |-> "knowledge_stats", http |-> HttpOk, stats |-> s]
    /\ UNCHANGED <<kb, cc, q, llm, client>>

\* POST /rag/knowledge/reset
KnowledgeResetEndpoint ==
    LET db == Persist(KB_NAME, rag_reset_knowledge_base(Collections[KB_NAME])) IN
    /\ kb' = db[KB_NAME]
    /\ cc' = db[CC_NAME]
    /\ last' = [op |-> "knowledge_reset", http |-> HttpOk]
    /\ UNCHANGED <<q, llm, client>>

\* a call of KnowledgeBaseManager.search_knowledge(query, filters, n_results)
SearchKnowledgeCall(f, n_results) ==
    /\ \E hits \in search_knowledge(kb, f, n_results) :
          last' = [op |-> "search_knowledge", filters |-> f,
                   n_results |-> n_results, hits |-> hits]
    /\ UNCHANGED <<kb, cc, q, llm, client>>

----------------------------------------------------------------------------
(* The analysis endpoints *)

\* POST /analyze with an uploaded file
AnalyzeUploadEndpoint(req) ==
    LET r == analyze_contract(req, llm) IN
    /\ client # NotLoaded
    /\ last' = [op |-> "analyze", req |-> req, http |-> r.http,
                clauses |-> r.clauses, llm_calls |-> r.llm_calls,
                tmp_file |-> r.tmp_file]
    /\ UNCHANGED <<kb, cc, q, llm, client>>

\* POST /rag/analyze-stored with the name of a stored contract
AnalyzeStoredEndpoint(contract_name) ==
    /\ \E r \in analyze_stored_contract_endpoint(cc, contract_name, llm) :
          last' = [op |-> "analyze_stored", contract_name |-> contract_name,
                   http |-> r.http, clauses |-> r.clauses, llm_calls |-> r.llm_calls,
                   full_contract_text |-> r.full_contract_text]
    /\ UNCHANGED <<kb, cc, q, llm, client>>

\* the import of main.py when the server process starts
LoadMain(api_key) ==
    /\ client = NotLoaded
    /\ LET r == init_client(api_key) IN
       /\ client' = r.client
       /\ last' = [op |-> "load_main", caught |-> r.caught, raised |-> r.raised]
    /\ UNCHANGED <<kb, cc, q, llm>>

\* GET /health
HealthEndpoint ==
    /\ client # NotLoaded
    /\ last' = [op |-> "health", http |-> HttpOk, body |-> health_check]
    /\ UNCHANGED <<kb, cc, q, llm, client>>

----------------------------------------------------------------------------
(* Inputs of the contract requests *)

ContractNames == {"c1", "c2"}

\* "F n()", one chunk that declares a function, and "aaa aaaa", two chunks
TextFn == <<"F", " ", "n", "(", ")">>
TextTwo == <<"a", "a", "a", " ", "a", "a", "a", "a">>

ContractTexts == {TextFn, TextTwo}

NumChunks(contract_text) == Len(split_text(document_processor, contract_text))

----------------------------------------------------------------------------
(* Inputs of the knowledge-base requests *)

Categories == {"A", "B"}
PatternTypes == {"p"}
StoredStandards == {None, Some("s")}
SeverityInputs == {SEVERITY_MIN - 1, SEVERITY_MIN, 3, SEVERITY_MAX, SEVERITY_MAX + 1}

KbInputs ==
    [content : {"text"}, category : Categories, pattern_type : PatternTypes,
     severity : SeverityInputs, standard : StoredStandards]

SearchFilters ==
    [category : {None, Some(""), Some("A"), Some("B")},
     pattern_type : {None, Some("p"), Some("r")},
     min_severity : {None, Some(0), Some(3)},
     standard : {None, Some("s")}]

SearchLimits == {1, 3}

\* the items of the statistics scenario: one large category, one small
StatsInputA ==
    [content |-> "text", category |-> "A", pattern_type |-> "p",
     severity |-> 3, standard |-> None]
StatsInputB == [StatsInputA EXCEPT !.category = "B"]

----------------------------------------------------------------------------
(* Specification SpecKB: adding, statistics and reset of the knowledge base *)

KbAdd ==
    \E input \in KbInputs :
        /\ SeverityRejected(input.severity) \/ BagSize(kb) < MaxKbItems
        /\ KnowledgeAddEndpoint(input)

KbStats == KnowledgeStatsEndpoint

KbReset == KnowledgeResetEndpoint

NextKB == KbAdd \/ KbStats \/ KbReset

SpecKB == Init /\ [][NextKB]_vars

(* Specification SpecSearch: filtered search over a small knowledge base *)

SearchAdd ==
    \E input \in KbInputs :
        /\ BagSize(kb) < MaxKbItems
        /\ KnowledgeAddEndpoint(input)

SearchKnowledge ==
    \E f \in SearchFilters, n \in SearchLimits : SearchKnowledgeCall(f, n)

NextSearch == SearchAdd \/ SearchKnowledge

SpecSearch == Init /\ [][NextSearch]_vars

(* Specification SpecStats: statistics of a knowledge base that grows past  *)
(* the number of results the statistics query asks for                      *)

StatsAddA ==
    /\ BagSize(kb) < STATS_N_RESULTS + MaxExtraItems
    /\ KnowledgeAddEndpoint(StatsInputA)

StatsAddB ==
    /\ BagSize(FilterBag(kb, LAMBDA e : e.metadata.category = "B")) < MaxOtherCategory
    /\ BagSize(kb) < STATS_N_RESULTS + MaxExtraItems
    /\ KnowledgeAddEndpoint(StatsInputB)

StatsQuery == KnowledgeStatsEndpoint

StatsReset == KnowledgeResetEndpoint

NextStats == StatsAddA \/ StatsAddB \/ StatsQuery \/ StatsReset

SpecStats == Init /\ [][NextStats]_vars

----------------------------------------------------------------------------
(* Specification SpecReset: both collections are filled, inspected and     *)
(* reset in any order                                                       *)

ResetAddContract ==
    \E t \in ContractTexts, n \in ContractNames :
        /\ BagSize(cc) + NumChunks(t) <= MaxChunks
        /\ AddContractEndpoint(t, n)

ResetAddKnowledge ==
    \E input \in {StatsInputA, StatsInputB} :
        /\ BagSize(kb) < MaxKbItems
        /\ KnowledgeAddEndpoint(input)

ResetContracts == ResetCollectionEndpoint

ResetKnowledge == KnowledgeResetEndpoint

ResetContractStats == StatsEndpoint

ResetKnowledgeStats == KnowledgeStatsEndpoint

NextReset ==
    \/ ResetAddContract
    \/ ResetAddKnowledge
    \/ ResetContracts
    \/ ResetKnowledge
    \/ ResetContractStats
    \/ ResetKnowledgeStats

SpecReset == Init /\ [][NextReset]_vars

----------------------------------------------------------------------------
(* Specification SpecExtract: clause extraction from every LLM response of  *)
(* up to MaxRespLen tokens, on both analysis paths.  The store already      *)
(* holds the contract "c1", as add_contract leaves it.                      *)

Responses == UNION { [1..n -> Tokens] : n \in 0..MaxRespLen }

LlmAnswers == {LlmDown} \cup { LlmText(t) : t \in Responses }

StoredC1 == add_contract(EmptyBag, TextTwo, "c1").coll

GoodUpload == [pdf_name |-> TRUE, too_large |-> FALSE, readable |-> TRUE,
               text_len |-> MIN_TEXT_LENGTH]

InitExtract ==
    /\ kb = EmptyBag
    /\ cc = StoredC1
    /\ q = Idle
    /\ llm \in LlmAnswers
    /\ client = Configured
    /\ last = NoRequest

ExtractUpload == AnalyzeUploadEndpoint(GoodUpload)

ExtractStored == AnalyzeStoredEndpoint("c1")

NextExtract == ExtractUpload \/ ExtractStored

SpecExtract == InitExtract /\ [][NextExtract]_vars

----------------------------------------------------------------------------
(* Specification SpecChunk: processors are constructed with every small    *)
(* configuration and chunk every short text                                 *)

ChunkAlphabet == {"a", ".", " "}
ChunkTexts == UNION { [1..n -> ChunkAlphabet] : n \in 0..MaxTextLen }
ChunkSizes == 1..MaxChunkSize
ChunkOverlaps == 0..(MaxChunkSize + 1)

InitChunk ==
    /\ kb = EmptyBag
    /\ cc = EmptyBag
    /\ q = Idle
    /\ llm = LlmDown
    /\ client = Configured
    /\ last \in [op : {"chunk_input"}, chunk_size : ChunkSizes,
                 chunk_overlap : ChunkOverlaps, text : ChunkTexts]

\* DocumentProcessor(chunk_size, chunk_overlap)
ChunkConstruct ==
    /\ last.op = "chunk_input"
    /\ last' = [op |-> "construct", chunk_size |-> last.chunk_size,
                chunk_overlap |-> last.chunk_overlap, text |-> last.text,
                dp |-> DocumentProcessor(last.chunk_size, last.chunk_overlap),
                exc |-> DocumentProcessor(last.chunk_size, last.chunk_overlap).exc]
    /\ UNCHANGED <<kb, cc, q, llm, client>>

\* process_smart_contract(text, "c1") of the processor constructed
ChunkProcess ==
    /\ last.op = "construct"
    /\ last.exc = NoExc
    /\ last' = [op |-> "process", dp |-> last.dp, text |-> last.text,
                processed |-> process_smart_contract(last.dp, last.text, "c1")]
    /\ UNCHANGED <<kb, cc, q, llm, client>>

\* vector_store.add_documents(documents=processed["documents"],
\* metadatas=processed["metadatas"], ids=processed["ids"]) of add_contract,
\* for a text that gave at least one chunk
ChunkAdd ==
    /\ last.op = "process"
    /\ last.processed.ids # <<>>
    /\ cc' = add_documents(cc, SeqToBag(AddArguments(last.processed)))
    /\ last' = [last EXCEPT !.op = "added"]
    /\ UNCHANGED <<kb, q, llm, client>>

NextChunk == ChunkConstruct \/ ChunkProcess \/ ChunkAdd

SpecChunk == InitChunk /\ [][NextChunk]_vars

----------------------------------------------------------------------------
(* Specification SpecStartup: the server process loads main.py with or      *)
(* without an API key in its environment, then serves /health and /analyze  *)

ApiKeys == {None, Some("key")}

UploadRequests ==
    [pdf_name : BOOLEAN, too_large : BOOLEAN, readable : BOOLEAN,
     text_len : {0, MIN_TEXT_LENGTH - 1, MIN_TEXT_LENGTH}]

InitStartup ==
    /\ kb = EmptyBag
    /\ cc = EmptyBag
    /\ q = Idle
    /\ llm \in {LlmDown, LlmText(<<"x">>), LlmText(<<"[", "A", "]">>)}
    /\ client = NotLoaded
    /\ last = NoRequest

StartupLoad == \E k \in ApiKeys : LoadMain(k)

StartupHealth == HealthEndpoint

StartupAnalyze == \E req \in UploadRequests : AnalyzeUploadEndpoint(req)

NextStartup == StartupLoad \/ StartupHealth \/ StartupAnalyze

SpecStartup == InitStartup /\ [][NextStartup]_vars

----------------------------------------------------------------------------
(* Specification SpecQuery: contracts and knowledge items are added and     *)
(* questions are answered, one request at a time                            *)

Questions == {"q1"}

QueryRequests == [question : Questions,
                  contract_name : {None} \cup {Some(n) : n \in ContractNames}]

QueryKbInputs ==
    { [content |-> "text", category |-> "A", pattern_type |-> "p",
       severity |-> 3, standard |-> None,
       code_example |-> Some("code"), description |-> Some("desc")],
      [content |-> "text", category |-> "B", pattern_type |-> "p",
       severity |-> 0, standard |-> None] }

InitQuery ==
    /\ kb = EmptyBag
    /\ cc = EmptyBag
    /\ q = Idle
    /\ llm \in {LlmDown, LlmText(<<"x", "x">>)}
    /\ client = Configured
    /\ last = NoRequest

QueryAddContract ==
    \E t \in ContractTexts, n \in ContractNames :
        /\ q.pc = "idle"
        /\ BagSize(cc) + NumChunks(t) <= MaxChunks
        /\ AddContractEndpoint(t, n)

QueryAddKnowledge ==
    \E input \in QueryKbInputs :
        /\ q.pc = "idle"
        /\ BagSize(kb) < MaxKbItems
        /\ KnowledgeAddEndpoint(input)

QueryArrives == \E req \in QueryRequests : QueryReceive(req)

NextQuery ==
    \/ QueryAddContract
    \/ QueryAddKnowledge
    \/ QueryArrives
    \/ QueryContractSearch
    \/ QueryContractSearchFails
    \/ QueryKnowledgeSearch
    \/ QueryKnowledgeSearchFails
    \/ QueryLlm

SpecQuery == InitQuery /\ [][NextQuery]_vars

----------------------------------------------------------------------------
(* Specification SpecContext: one question, just received, is answered     *)
(* over a contract store of six chunks and a knowledge base of three       *)
(* items, more than either search asks for                                  *)

StoredSix ==
    LET one == add_contract(EmptyBag, TextTwo, "c1").coll
        two == add_contract(one, TextFn, "c1").coll
        three == add_contract(two, TextTwo, "c2").coll
    IN  add_contract(three, TextFn, "c2").coll

StoredKnowledge ==
    LET A == CHOOSE i \in QueryKbInputs : i.category = "A"
        B == CHOOSE i \in QueryKbInputs : i.category = "B"
        one == add_knowledge_item(EmptyBag, A).coll
        two == add_knowledge_item(one, B).coll
    IN  add_knowledge_item(two, [B EXCEPT !.severity = SEVERITY_MAX]).coll

InitContext ==
    /\ kb = StoredKnowledge
    /\ cc = StoredSix
    /\ q \in {QueryStarted(req) : req \in QueryRequests}
    /\ llm \in {LlmDown, LlmText(<<"x", "x">>)}
    /\ client = Configured
    /\ last = NoRequest

NextContext ==
    \/ QueryContractSearch
    \/ QueryContractSearchFails
    \/ QueryKnowledgeSearch
    \/ QueryKnowledgeSearchFails
    \/ QueryLlm

SpecContext == InitContext /\ [][NextContext]_vars

----------------------------------------------------------------------------
(* Specification SpecStored: contracts are added, under the same name more *)
(* than once too, and stored contracts, and names never stored, are        *)
(* analysed                                                                 *)

StoredNames == ContractNames \cup {"c3"}

InitStored ==
    /\ kb = EmptyBag
    /\ cc = EmptyBag
    /\ q = Idle
    /\ llm \in {LlmDown, LlmText(<<"x", "x">>)}
    /\ client = Configured
    /\ last = NoRequest

StoredAdd ==
    \E t \in ContractTexts, n \in ContractNames :
        /\ BagSize(cc) + NumChunks(t) <= MaxChunks
        /\ AddContractEndpoint(t, n)

StoredAnalyze == \E n \in StoredNames : AnalyzeStoredEndpoint(n)

NextStored == StoredAdd \/ StoredAnalyze

SpecStored == InitStored /\ [][NextStored]_vars

----------------------------------------------------------------------------
(* Specification SpecPrompt: clause extraction, on the upload path and on  *)
(* the RAG service, of texts shorter than, as long as and longer than the  *)
(* limit of the prompt                                                      *)

Fill(n) == [i \in 1..n |-> "a"]

PromptTexts ==
    { Fill(n) \o t :
        n \in {0, PROMPT_TEXT_LIMIT - 2, PROMPT_TEXT_LIMIT - 1, PROMPT_TEXT_LIMIT},
        t \in {<<>>, <<"b">>, <<"c">>, <<"b", "c">>, <<"c", "b">>, <<"b", "b", "c">>} }

InitPrompt ==
    /\ kb = EmptyBag
    /\ cc = EmptyBag
    /\ q = Idle
    /\ llm \in {LlmDown, LlmText(<<"[", "]">>)}
    /\ client \in {Configured, NoClient}
    /\ last \in [op : {"prompt_input"}, text : PromptTexts]

\* main.analyze_contract_with_claude(text)
PromptUpload ==
    /\ last.op = "prompt_input"
    /\ LET r == main_analyze_contract_with_claude(last.text, llm) IN
       last' = [op |-> "extract", path |-> "upload", text |-> last.text,
                prompt |-> r.prompt, llm_calls |-> r.llm_calls,
                failed |-> r.http.status # 200]
    /\ UNCHANGED <<kb, cc, q, llm, client>>

\* rag_service.analyze_contract_with_claude(text)
PromptStored ==
    /\ last.op = "prompt_input"
    /\ LET r == rag_analyze_contract_with_claude(last.text, llm) IN
       last' = [op |-> "extract", path |-> "stored", text |-> last.text,
                prompt |-> r.prompt, llm_calls |-> r.llm_calls,
                failed |-> r.exc # NoExc]
    /\ UNCHANGED <<kb, cc, q, llm, client>>

NextPrompt == PromptUpload \/ PromptStored

SpecPrompt == InitPrompt /\ [][NextPrompt]_vars

----------------------------------------------------------------------------
(* Specification SpecFlags: the LLM answers with an array of one to three  *)
(* clause objects, each with the four required fields, whose risk_flag and *)
(* risk_reason are as the LLM chose to write them                           *)

FlagTokens == {"A", "B", "Y", "R", "Q"}

\* the text of a JSON array of the objects
ArrayText(elems) == <<"[">> \o Join(<<",">>, [i \in 1..Len(elems) |-> <<elems[i]>>]) \o <<"]">>

FlagAnswers ==
    { LlmText(ArrayText(e)) : e \in UNION { [1..n -> FlagTokens] : n \in 1..3 } }

InitFlags ==
    /\ kb = EmptyBag
    /\ cc = StoredC1
    /\ q = Idle
    /\ llm \in FlagAnswers
    /\ client = Configured
    /\ last = NoRequest

FlagsUpload == AnalyzeUploadEndpoint(GoodUpload)

FlagsStored == AnalyzeStoredEndpoint("c1")

NextFlags == FlagsUpload \/ FlagsStored

SpecFlags == InitFlags /\ [][NextFlags]_vars

----------------------------------------------------------------------------
(* Specification SpecDetails: contracts are added under any name a request *)
(* can carry, the empty string included, the collection is reset, stored  *)
(* contracts are analysed and /rag/stats is read                            *)

AnyContractNames == ContractNames \cup {""}

DetailsAdd ==
    \E t \in ContractTexts, n \in AnyContractNames :
        /\ BagSize(cc) + NumChunks(t) <= MaxChunks
        /\ AddContractEndpoint(t, n)

DetailsReset == ResetCollectionEndpoint

DetailsStats == StatsEndpoint

DetailsAnalyze == \E n \in AnyContractNames : AnalyzeStoredEndpoint(n)

NextDetails == DetailsAdd \/ DetailsReset \/ DetailsStats \/ DetailsAnalyze

SpecDetails == Init /\ [][NextDetails]_vars

----------------------------------------------------------------------------
(* Specification SpecGetAll: one caller runs get_all_documents, its count  *)
(* and its fetch as two steps, while another caller adds contracts          *)

\* count = self.collection.count()
GetAllCount ==
    /\ q.pc = "idle"
    /\ q' = [pc |-> "get_all_fetch", count |-> BagSize(cc)]
    /\ UNCHANGED <<kb, cc, llm, client, last>>

\* results = self.collection.get(include=[...], limit=count)
GetAllFetch ==
    /\ q.pc = "get_all_fetch"
    /\ \E results \in collection_get(cc, q.count) :
          last' = [op |-> "get_all", count |-> q.count, results |-> results]
    /\ q' = Idle
    /\ UNCHANGED <<kb, cc, llm, client>>

\* POST /rag/add-contract by another caller, at any moment
GetAllAdd ==
    \E t \in ContractTexts, n \in ContractNames :
        /\ BagSize(cc) + NumChunks(t) <= MaxChunks
        /\ AddContractEndpoint(t, n)

NextGetAll == GetAllCount \/ GetAllFetch \/ GetAllAdd

SpecGetAll == Init /\ [][NextGetAll]_vars

----------------------------------------------------------------------------
(* Specification SpecItems: every operation that reaches a collection, in  *)
(* any order: adding, resetting, the two statistics, analysing a stored    *)
(* contract and searching the knowledge base                                *)

ItemsAddContract == ResetAddContract

ItemsAddKnowledge == ResetAddKnowledge

ItemsResetContracts == ResetCollectionEndpoint

ItemsResetKnowledge == KnowledgeResetEndpoint

ItemsStats == StatsEndpoint

ItemsKnowledgeStats == KnowledgeStatsEndpoint

ItemsAnalyze == \E n \in ContractNames : AnalyzeStoredEndpoint(n)

ItemsSearch == \E n \in 1..MaxKbItems : SearchKnowledgeCall(NoFilters, n)

NextItems ==
    \/ ItemsAddContract
    \/ ItemsAddKnowledge
    \/ ItemsResetContracts
    \/ ItemsResetKnowledge
    \/ ItemsStats
    \/ ItemsKnowledgeStats
    \/ ItemsAnalyze
    \/ ItemsSearch

SpecItems == Init /\ [][NextItems]_vars

----------------------------------------------------------------------------
(* Specification SpecEquiv: the two implementations of the clause          *)
(* extraction handle the same LLM response, every response of up to        *)
(* MaxRespLen tokens                                                        *)

InitEquiv ==
    /\ kb = EmptyBag
    /\ cc = EmptyBag
    /\ q = Idle
    /\ llm \in LlmAnswers
    /\ client = Configured
    /\ last = NoRequest

\* main.analyze_contract_with_claude and
\* rag_service.analyze_contract_with_claude on one text and one response
EquivExtract ==
    /\ last = NoRequest
    /\ last' = [op |-> "extract_both",
                upload |-> main_analyze_contract_with_claude(TextTwo, llm),
                stored |-> rag_analyze_contract_with_claude(TextTwo, llm)]
    /\ UNCHANGED <<kb, cc, q, llm, client>>

SpecEquiv == InitEquiv /\ [][EquivExtract]_vars

----------------------------------------------------------------------------
(* Claims *)

Analyses == {"analyze", "analyze_stored"}

CountOf(counts, c) == IF c \in DOMAIN counts THEN counts[c] ELSE 0

StoredWithCategory(c) == BagSize(FilterBag(kb, LAMBDA e : e.metadata.category = c))

\* C1: an add with severity < 0 or > 5 fails with a validation error and
\* leaves the knowledge base exactly as it was; an add with severity in
\* 0..5 succeeds and the knowledge base gains exactly one item, which
\* carries that severity.
C1_SeverityValidatedBeforeStore ==
    [][ last'.op = "knowledge_add" =>
          LET sev == last'.input.severity IN
          IF sev < 0 \/ sev > 5
          THEN /\ kb' = kb
               /\ last'.http.status # 200
               /\ last'.http.cause.cls = "ValueError"
               /\ last'.stored = EmptyBag
          ELSE /\ last'.http.status = 200
               /\ BagSize(kb') = BagSize(kb) + 1
               /\ \E e \in DOMAIN kb' :
                     /\ e.metadata.severity = sev
                     /\ kb' = kb (+) SetToBag({e}) ]_vars

\* C1 witness: severity 6 was rejected while the knowledge base held an item
C1_Witness ==
    /\ last.op = "knowledge_add"
    /\ last.input.severity = 6
    /\ last.http.status # 200
    /\ BagSize(kb) = 1

\* C2: when the query request names a document, no chunk of another
\* document is in the context; when it names none, the contract search is
\* unfiltered (every stored chunk, up to the 5 asked for, is in the context).
C2_ContextRestrictedToNamedDocument ==
    (last.op = "query" /\ last.http.status = 200) =>
        LET parts == {i \in 1..Len(last.context) : last.context[i].source = "contract"} IN
        IF last.req.contract_name # None
        THEN \A i \in parts : last.context[i].name = Val(last.req.contract_name)
        ELSE Cardinality(parts) = Min2(CONTRACT_N_RESULTS, BagSize(cc))

ReportsNoArray(h) == h.shown.msg = "No valid JSON array found"
ReportsMalformed(h) == h.detail = "Error parsing AI response" \/ h.shown.cls = "JSONDecodeError"

\* C3: on both analysis paths a response without a well-formed JSON array
\* is answered with a 5xx status, and the answer tells "no array found"
\* from "malformed JSON".
C3_ParseErrorsAre5xx ==
    last.op \in Analyses =>
        /\ last.http.cause.msg = "No valid JSON array found" =>
              /\ last.http.status \in 500..599
              /\ ReportsNoArray(last.http) /\ ~ReportsMalformed(last.http)
        /\ last.http.cause.cls = "JSONDecodeError" =>
              /\ last.http.status \in 500..599
              /\ ReportsMalformed(last.http) /\ ~ReportsNoArray(last.http)

IsValidationError(e) ==
    e.msg \in {"Severity must be between 0 and 5", "Missing required field",
               "No text could be extracted from the PDF"}

\* C4: every validation error (severity out of range, a clause missing a
\* required field, an empty extracted text) is answered with a 4xx status
\* and a message that describes it.
C4_ValidationErrorsAre4xx ==
    (last.op \in Analyses \cup {"knowledge_add"} /\ IsValidationError(last.http.cause)) =>
        /\ last.http.status \in 400..499
        /\ last.http.shown = last.http.cause

NoOrderedPair(t) ==
    ~\E i \in 1..Len(t), j \in 1..Len(t) : i < j /\ t[i] = "[" /\ t[j] = "]"

\* C5: a response with no "[" followed later by a "]" fails with the "no
\* array found" error, not with the "malformed JSON" error.
C5_NoBracketPairIsNoArray ==
    (last.op \in Analyses /\ llm.kind = "text" /\ NoOrderedPair(llm.tokens)) =>
        /\ last.http.cause.msg = "No valid JSON array found"
        /\ last.http.cause.cls # "JSONDecodeError"

IsFullClause(v) == v.k = "obj" /\ RequiredSet \subseteq v.has

\* the array json.loads would make of the bracket span of the response
ParsedArray(t) == json_loads(BracketSpan(t).json_str)

\* C6: a list is returned only if every element of the parsed array is an
\* object with all four required fields; if an element lacks one, the call
\* fails with a "missing field" error naming a field that element lacks.
C6_AllElementsValidated ==
    (last.op \in Analyses /\ llm.kind = "text") =>
        /\ last.http.status = 200 =>
              \A i \in 1..Len(last.clauses) : IsFullClause(last.clauses[i])
        /\ (BracketSpan(llm.tokens).found /\ ParsedArray(llm.tokens).exc = NoExc) =>
              LET items == ParsedArray(llm.tokens).val.items IN
              (\E i \in 1..Len(items) : ~IsFullClause(items[i])) =>
                  /\ last.http.status # 200
                  /\ last.clauses = NoClauses
                  /\ last.http.cause.msg = "Missing required field"
                  /\ \E i \in 1..Len(items) :
                        items[i].k = "obj" /\ last.http.cause.field \in RequiredSet \ items[i].has

\* the response is prose, one array of well-formed clause objects, prose
SingleClauseArray(t) ==
    /\ Cardinality({i \in 1..Len(t) : t[i] = "["}) = 1
    /\ Cardinality({i \in 1..Len(t) : t[i] = "]"}) = 1
    /\ LET a == CHOOSE i \in 1..Len(t) : t[i] = "["
           b == CHOOSE i \in 1..Len(t) : t[i] = "]"
       IN  /\ a < b
           /\ \A i \in 1..Len(t) : (i < a \/ i > b) => t[i] = "x"
           /\ b - a = 1 \/ (b - a) % 2 = 0
           /\ \A i \in (a + 1)..(b - 1) :
                 IF (i - a) % 2 = 1 THEN t[i] \in {"A", "B"} ELSE t[i] = ","

ClausesWritten(t) ==
    LET a == CHOOSE i \in 1..Len(t) : t[i] = "["
        b == CHOOSE i \in 1..Len(t) : t[i] = "]"
    IN  [i \in 1..((b - a) \div 2) |-> Decode(t[a + 2 * i - 1])]

\* C7: a response holding exactly one JSON array of n well-formed clause
\* objects, with no other bracket in the prose around it, yields exactly
\* those n records, in the order written, fields unchanged.
C7_SingleArrayReturnedInOrder ==
    (last.op \in Analyses /\ llm.kind = "text" /\ SingleClauseArray(llm.tokens)) =>
        /\ last.http.status = 200
        /\ last.clauses = ClausesWritten(llm.tokens)

\* C7 witness: an array of two different clauses was extracted
C7_Witness ==
    /\ last.op \in Analyses
    /\ llm.kind = "text"
    /\ SingleClauseArray(llm.tokens)
    /\ Len(last.clauses) = 2
    /\ last.clauses[1] # last.clauses[2]

\* C8: stats().categories maps each category to the number of stored items
\* of that category, so the counts sum to stats().count, whatever the
\* number of stored items.
C8_StatsCountEveryItem ==
    last.op = "knowledge_stats" =>
        /\ \A c \in Categories :
              CountOf(last.stats.categories, c) = StoredWithCategory(c)
        /\ DOMAIN last.stats.categories \subseteq Categories
        /\ CountOf(last.stats.categories, "A") + CountOf(last.stats.categories, "B")
              = last.stats.count

\* C9: search_knowledge returns only items that satisfy every filter
\* provided: category, pattern type and standard by equality, min_severity
\* by >=.
C9_SearchHonoursEveryFilter ==
    last.op = "search_knowledge" =>
        \A e \in DOMAIN last.hits :
            /\ last.filters.category # None =>
                  e.metadata.category = Val(last.filters.category)
            /\ last.filters.pattern_type # None =>
                  e.metadata.pattern_type = Val(last.filters.pattern_type)
            /\ last.filters.min_severity # None =>
                  e.metadata.severity >= Val(last.filters.min_severity)
            /\ last.filters.standard # None =>
                  e.metadata.standard = last.filters.standard

C11_ResetLeavesEmptyUsableCollection ==
    [][ /\ last'.op = "reset" => BagSize(cc') = 0
        /\ last'.op = "knowledge_reset" => BagSize(kb') = 0
        /\ (last.op = "reset" /\ last'.op = "stats") =>
              /\ last'.stats.total_contracts = 0
              /\ last'.stats.collection_name = "smart_contract_analysis"
        /\ (last.op = "reset" /\ last'.op = "add_contract") =>
              /\ last'.stats.count > 0
              /\ last'.stats.count = BagSize(cc')
              /\ last'.stats.name = "smart_contract_analysis"
              /\ \A e \in DOMAIN cc' : e.metadata.contract_name = last'.contract_name
        /\ (last.op = "knowledge_reset" /\ last'.op = "knowledge_stats") =>
              /\ last'.stats.count = 0
              /\ last'.stats.name = "smart_contract_knowledge_base"
              /\ DOMAIN last'.stats.categories = {}
        /\ (last.op = "knowledge_reset" /\ last'.op = "knowledge_add") =>
              /\ last'.http.status = 200
              /\ kb' = last'.stored
              /\ BagSize(kb') = 1 ]_vars

\* C11 witness: the contract store is empty after a reset while the
\* knowledge base still holds its items
C11_Witness ==
    /\ last.op = "reset"
    /\ BagSize(cc) = 0
    /\ BagSize(kb) = MaxKbItems

\* C12: a reset of one collection and an add to one collection leave the
\* other collection exactly as it was.
C12_CollectionsIndependent ==
    [][ /\ last'.op \in {"reset", "add_contract"} => kb' = kb
        /\ last'.op \in {"knowledge_reset", "knowledge_add"} => cc' = cc
        /\ (last'.op = "add_contract" /\ last' # last) => cc' # cc
        /\ (last'.op = "knowledge_add" /\ last' # last) => kb' # kb ]_vars

\* C12 witness: the knowledge base was reset while contract chunks are stored
C12_Witness ==
    /\ last.op = "knowledge_reset"
    /\ kb = EmptyBag
    /\ BagSize(cc) = MaxChunks

\* C13: whatever a catch block caught leaves it again as a raised error,
\* and no request is answered with success while the step it depends on
\* has failed.
C13_NoErrorSwallowed ==
    /\ last.op = "load_main" => (last.caught # NoExc => last.raised # NoExc)
    /\ last.op = "health" =>
          (client = NoClient => last.body.status # "healthy")
    /\ last.op \in Analyses => (last.http.cause # NoExc => last.http.status # 200)

\* the overlaps chunk b can share with its predecessor a: a head of b, of
\* at most `overlap` characters, that is the tail of a
SharedOverlaps(a, b, overlap) ==
    { o \in 0..Min2(overlap, Min2(Len(a), Len(b))) :
        SubSeq(b, 1, o) = SubSeq(a, Len(a) - o + 1, Len(a)) }

\* the texts the first i chunks concatenate to, each chunk without an
\* overlap it shares with its predecessor
RECURSIVE Rebuilds(_, _, _)
Rebuilds(chunks, i, overlap) ==
    IF i = 0 THEN {<<>>}
    ELSE IF i = 1 THEN {chunks[1]}
    ELSE { r \o SubSeq(chunks[i], o + 1, Len(chunks[i])) :
             r \in Rebuilds(chunks, i - 1, overlap),
             o \in SharedOverlaps(chunks[i - 1], chunks[i], overlap) }

\* C14: the chunks of a text, concatenated in index order after removing
\* from each chunk the overlap it shares with its predecessor (at most
\* chunk_overlap characters), give the text back: no character is lost.
C14_ChunksReconstructText ==
    last.op = "process" =>
        LET chunks == last.processed.documents IN
        last.text \in Rebuilds(chunks, Len(chunks), last.dp.chunk_overlap)

\* C15: a processor is constructed if and only if chunk_overlap <
\* chunk_size: construction with chunk_overlap >= chunk_size fails, so
\* every processor in use has chunk_overlap < chunk_size.
C15_OverlapBelowChunkSize ==
    /\ last.op = "construct" =>
          (last.exc # NoExc <=> last.chunk_overlap >= last.chunk_size)
    /\ last.op = "process" => last.dp.chunk_overlap < last.dp.chunk_size

\* s has the contiguous part sub
Contains(s, sub) ==
    \E i \in 1..(Len(s) - Len(sub) + 1) : SubSeq(s, i, i + Len(sub) - 1) = sub

\* the header of a context entry: its text up to the ":\n" before the document
Header(text) ==
    SubSeq(text, 1, (CHOOSE i \in 1..Len(text) :
                        text[i] = ":\n" /\ \A j \in 1..(i - 1) : text[j] # ":\n") - 1)

\* C16: the question in the prompt, in the system message and in the user
\* message, is the question string of the request itself, with nothing
\* wrapped around it.
C16_RawQuestionInPrompt ==
    (last.op = "query" /\ last.http.status = 200) =>
        /\ last.prompt.human = <<last.req.question>>
        /\ last.prompt.system.question = <<last.req.question>>

\* C17: the header of the context entry of a chunk with function
\* declarations holds every signature extracted from the chunk, intact.
C17_SignaturesIntactInHeader ==
    (last.op = "query" /\ last.http.status = 200) =>
        \A i \in 1..Len(last.context) :
            last.context[i].source = "contract" =>
                LET sigs == extract_function_signatures(last.context[i].hit.document) IN
                \A k \in 1..Len(sigs) : Contains(Header(last.context[i].text), sigs[k])

\* C18: the header of the context entry of a knowledge-base hit holds the
\* item's category and its severity, for every severity 0..5.
C18_CategoryAndSeverityInHeader ==
    (last.op = "query" /\ last.http.status = 200) =>
        \A i \in 1..Len(last.context) :
            last.context[i].source = "kb" =>
                LET hit == last.context[i].hit IN
                /\ Contains(Header(last.context[i].text), <<hit.metadata.category>>)
                /\ Contains(Header(last.context[i].text), <<IntStr(hit.metadata.severity)>>)

\* C19: the context is the entries of the contract hits (at most 5), in
\* the order the search returned them, then the entries of the knowledge
\* hits (at most 2), in the order returned, one entry per hit, joined by a
\* blank line.
C19_ContextOrder ==
    (last.op = "query" /\ last.http.status = 200) =>
        LET cr == last.contract_results
            kr == last.knowledge_results
            ctx == last.context
        IN  /\ Len(cr) = Min2(5, BagSize(cc))
            /\ Len(kr) = Min2(2, BagSize(kb))
            /\ Len(ctx) = Len(cr) + Len(kr)
            /\ \A i \in 1..Len(cr) :
                  /\ ctx[i].source = "contract"
                  /\ ctx[i].hit = cr[i]
                  /\ Contains(ctx[i].text, cr[i].document)
            /\ \A j \in 1..Len(kr) :
                  /\ ctx[Len(cr) + j].source = "kb"
                  /\ ctx[Len(cr) + j].hit = kr[j]
                  /\ Contains(ctx[Len(cr) + j].text, <<kr[j].document>>)
            /\ last.prompt.system.context =
                  Join(<<"\n\n">>, [i \in 1..Len(ctx) |-> ctx[i].text])

\* C19 witness: five different contract hits and two different knowledge
\* hits went into the context
C19_Witness ==
    /\ last.op = "query"
    /\ last.http.status = 200
    /\ Len(last.contract_results) = 5
    /\ Cardinality({last.contract_results[i] : i \in 1..5}) = 5
    /\ Len(last.knowledge_results) = 2
    /\ last.knowledge_results[1] # last.knowledge_results[2]
    /\ Len(last.context) = 7

\* C20: the text handed to clause extraction is the documents of exactly
\* the stored chunks of the requested name, in an order of non-decreasing
\* chunk index, joined by one newline; when no chunk has the name the
\* request fails with "not found" (404, ValueError) and calls no LLM.
C20_StoredTextFromNamedChunks ==
    last.op = "analyze_stored" =>
        LET named == { e \in DOMAIN cc : e.metadata.contract_name = last.contract_name } IN
        IF named = {}
        THEN /\ last.http.status = 404
             /\ last.http.cause.cls = "ValueError"
             /\ last.llm_calls = 0
        ELSE \E s \in Orderings([e \in named |-> cc[e]]) :
                /\ \A i \in 1..(Len(s) - 1) :
                       s[i].metadata.chunk_index <= s[i + 1].metadata.chunk_index
                /\ last.full_contract_text
                       = Join(<<"\n">>, [i \in 1..Len(s) |-> s[i].document])

\* C20 witness: a contract of two chunks is analysed while another contract
\* is stored too, and the LLM is called
C20_Witness ==
    /\ last.op = "analyze_stored"
    /\ last.llm_calls = 1
    /\ \E e, f \in DOMAIN cc :
          /\ e.metadata.contract_name = last.contract_name
          /\ f.metadata.contract_name = last.contract_name
          /\ e.metadata.chunk_index < f.metadata.chunk_index
          /\ e.document # f.document
    /\ \E g \in DOMAIN cc : g.metadata.contract_name # last.contract_name

\* C21: every extraction makes exactly one LLM call, and its prompt holds,
\* between the instructions and the end of the template, the first
\* min(length, 8000) characters of the document and no other character of
\* it.
C21_PromptHoldsTruncatedText ==
    last.op = "extract" =>
        LET n == IF Len(last.text) <= 8000 THEN Len(last.text) ELSE 8000 IN
        /\ last.llm_calls = 1
        /\ Len(last.prompt) = n + 2
        /\ \A i \in 1..n : last.prompt[i + 1] = last.text[i]

\* C22: every clause record returned by an extraction has risk_flag "Yes"
\* or "No", and has a risk_reason exactly when its risk_flag is "Yes".
C22_RiskFlagAndReason ==
    (last.op \in {"analyze", "analyze_stored"} /\ last.http.status = 200) =>
        \A i \in 1..Len(last.clauses) :
            /\ last.clauses[i].flag \in {"Yes", "No"}
            /\ ("risk_reason" \in last.clauses[i].has) <=> (last.clauses[i].flag = "Yes")

\* C23: the contracts of /rag/stats are one summary per contract name found
\* in the stored chunks, each with the number of stored chunks of that name.
C23_OneSummaryPerName ==
    last.op = "stats" =>
        LET names == { e.metadata.contract_name : e \in DOMAIN cc }
            contracts == last.stats.contracts
        IN  /\ DOMAIN contracts = names
            /\ \A n \in names :
                  /\ contracts[n].name = n
                  /\ contracts[n].document_count
                       = BagSum(cc, { e \in DOMAIN cc : e.metadata.contract_name = n })

\* C30: total_contracts of /rag/stats is the number of contracts in the
\* contracts list of the same response.
C30_TotalContractsIsDistinctContracts ==
    last.op = "stats" =>
        last.stats.total_contracts = Cardinality(DOMAIN last.stats.contracts)

\* C24: the fetch of get_all_documents never returns more documents than
\* the count read in the step before it (an add between the two steps can
\* only make it return fewer than the collection holds).
C24_FetchWithinCountRead ==
    [][(q.pc = "get_all_fetch" /\ q'.pc = "idle")
          => BagSize(last'.results) <= q.count]_vars

\* bag B keeps every item of bag A, at least as many times
Keeps(A, B) == \A e \in DOMAIN A : e \in DOMAIN B /\ A[e] <= B[e]

\* C25: in every step each collection keeps every item it holds, with its
\* text and metadata, or is emptied by a reset of that collection.
C25_ItemsKeptUntilReset ==
    [][/\ Keeps(cc, cc') \/ (cc' = EmptyBag /\ last'.op = "reset")
       /\ Keeps(kb, kb') \/ (kb' = EmptyBag /\ last'.op = "knowledge_reset")]_vars

\* C25 witness: a reset has just emptied the contract collection while the
\* knowledge base keeps its two items
C25_Witness ==
    /\ last.op = "reset"
    /\ cc = EmptyBag
    /\ BagSize(kb) = 2

\* C26: one call of process_smart_contract returns documents, metadatas and
\* ids of one length n; the i-th metadata has chunk index i (from 0),
\* total_chunks n and the caller's contract name; and the store receives
\* exactly the n items (i-th document with i-th metadata) of these lists.
C26_ChunkListsAligned ==
    last.op \in {"process", "added"} =>
        LET p == last.processed
            n == Len(p.documents)
        IN  /\ Len(p.metadatas) = n
            /\ Len(p.ids) = n
            /\ Cardinality({p.ids[i] : i \in 1..n}) = n
            /\ \A i \in 1..n :
                  /\ p.metadatas[i].chunk_index = i - 1
                  /\ p.metadatas[i].total_chunks = n
                  /\ p.metadatas[i].contract_name = "c1"
            /\ {p.metadatas[i].chunk_index : i \in 1..n} = 0..(n - 1)
            /\ last.op = "added" =>
                  /\ BagSize(cc) = n
                  /\ \A i \in 1..n :
                        LET e == [document |-> p.documents[i], metadata |-> p.metadatas[i]] IN
                        e \in DOMAIN cc /\ cc[e] = 1

\* C26 witness: a text of three chunks was processed and stored
C26_Witness ==
    /\ last.op = "added"
    /\ Len(last.processed.documents) = 3
    /\ BagSize(cc) = 3

\* C27: /analyze calls the LLM only for a request that passed the four
\* checks; a request failing one is answered 400, with the message of the
\* first check it fails in the order file name, size, extraction, text
\* length, and causes no LLM call.
C27_ChecksBeforeLlm ==
    last.op = "analyze" =>
        LET req == last.req
            failed == IF ~req.pdf_name THEN "Only PDF files are supported"
                      ELSE IF req.too_large THEN "Error reading uploaded file"
                      ELSE IF ~req.readable \/ req.text_len = 0
                      THEN "Error extracting text from PDF"
                      ELSE IF req.text_len < 50
                      THEN "Could not extract meaningful text from PDF"
                      ELSE "none"
        IN  /\ last.llm_calls > 0 => failed = "none"
            /\ failed # "none" =>
                  /\ last.http.status = 400
                  /\ last.http.detail = failed
                  /\ last.llm_calls = 0

\* C27 witness: with a client and an answering LLM, a PDF of allowed size
\* that cannot be read is refused without an LLM call
C27_Witness ==
    /\ last.op = "analyze"
    /\ client = Configured
    /\ llm.kind = "text"
    /\ last.req.pdf_name /\ ~last.req.too_large /\ ~last.req.readable
    /\ last.http.status = 400
    /\ last.llm_calls = 0

\* the kind of failure of an extraction
FailureKind(e) ==
    CASE e.cls = "APIError" -> "LLM call failed"
      [] e.cls = "JSONDecodeError" -> "malformed JSON"
      [] e.msg = "No valid JSON array found" -> "no array found"
      [] e.cls = "ValueError" /\ e.msg = "Missing required field"
            -> <<"missing field", e.field>>
      [] e.cls = "ValueError" -> "not an array"
      [] OTHER -> e.cls

\* C28: on one LLM response the upload path and the RAG service either
\* both return the same clause list or both fail, with the same kind of
\* failure (and the same missing field).
C28_ExtractionsEquivalent ==
    last.op = "extract_both" =>
        LET u == last.upload
            r == last.stored
        IN  /\ (u.http.status = 200) <=> (r.exc = NoExc)
            /\ u.http.status = 200 => u.clauses = r.clauses
            /\ u.http.status # 200 =>
                  FailureKind(u.http.cause) = FailureKind(r.exc)

\* C28 witness: both implementations refuse a response for a missing field
C28_Witness ==
    /\ last.op = "extract_both"
    /\ last.stored.exc.cls = "ValueError"
    /\ last.stored.exc.msg = "Missing required field"
    /\ last.upload.http.status = 500

\* C29: when extract_text_from_pdf has returned or raised, the temporary
\* file it created no longer exists.
C29_TempFileRemoved ==
    (last.op = "analyze" /\ last.tmp_file # "never created") =>
        last.tmp_file = "deleted"

====
